---------------------------- MODULE Spec2Model ----------------------------
(***************************************************************************)
(* Clean City Rewards: the record store (User, Complaint, Redeem           *)
(* documents) and the request handlers of routes/admin.js,                 *)
(* routes/complaints.js and routes/rewards.js that read and write it.      *)
(*                                                                         *)
(* Every handler is an async function: between two awaited store           *)
(* operations other requests may run.  A request therefore occupies a slot *)
(* of req and advances one awaited store operation per step; the           *)
(* synchronous code between two awaits belongs to the step of the await    *)
(* that precedes it.  The auth middleware (protect, admin) only reads the  *)
(* actor's role, which no handler writes, and is folded into the first     *)
(* step of each handler.                                                   *)
(*                                                                         *)
(* doc.save() sends a $set of the paths whose value was changed since the  *)
(* document was loaded (array push is sent as $push); findByIdAndUpdate    *)
(* with $inc is one atomic store operation.                                *)
(***************************************************************************)
EXTENDS Integers, Sequences, FiniteSets, TLC

(***************************************************************************)
(* Bounds of the model.                                                    *)
(***************************************************************************)
\* request handlers that may be in flight at the same time
MaxInFlight == 2
\* requests issued in one run
MaxRequests == 4
\* complaint documents that requests may address (one is stored initially)
MaxComplaints == 2
\* redemption documents that may be created
MaxRedeems == 2

(***************************************************************************)
(* Identities and closed sets of the schemas.                              *)
(***************************************************************************)
Citizens == {"u1", "u2"}
Admins == {"a1"}
UserIds == Citizens \cup Admins

Categories ==
    {"garbage_pile", "overflowing_bin", "illegal_dumping", "blocked_drain", "other"}
Priorities == {"low", "medium", "high", "urgent"}
ComplaintStatuses == {"pending", "approved", "rejected", "cleaned"}
RedeemStatuses == {"pending", "approved", "rejected", "fulfilled"}

\* complaints approved long ago, which no request of a run addresses
ArchivedIds == 101 .. 105
ActiveIds == 1 .. MaxComplaints
ComplaintIds == ActiveIds \cup ArchivedIds
RedeemIds == 1 .. MaxRedeems
Slots == 1 .. MaxInFlight

\* positions along one street, in metres
Locations == {0, 40, 100}

\* users that upvoted the initially stored complaints and issue no request
BackgroundVoters ==
    <<"b1", "b2", "b3", "b4", "b5", "b6", "b7", "b8", "b9", "b10", "b11", "b12",
      "b13", "b14">>

\* upvotes of an initially stored complaint, where the initial store varies
MaxUpvotes == 12

(***************************************************************************)
(* Complaint.calculatePoints                                               *)
(***************************************************************************)
UpvoteBonusThreshold == 10

pointsMap(category) ==
    CASE category = "illegal_dumping" -> 20
      [] category = "blocked_drain" -> 15
      [] category = "overflowing_bin" -> 10
      [] category = "garbage_pile" -> 10
      [] category = "other" -> 5
      [] OTHER -> 10

priorityBonus(priority) ==
    IF priority = "urgent" THEN 10
    ELSE IF priority = "high" THEN 5
    ELSE 0

\* variant: the bonus already at the threshold (>= for >)
upvoteBonusFromThreshold(upvotes) ==
    IF upvotes >= UpvoteBonusThreshold THEN 5 ELSE 0

upvoteBonus(upvotes) ==
    IF upvotes > UpvoteBonusThreshold THEN 5 ELSE 0

calculatePoints(doc) ==
    pointsMap(doc.category) + priorityBonus(doc.priority) + upvoteBonus(doc.upvotes)

(***************************************************************************)
(* Documents.                                                              *)
(***************************************************************************)
\* instants of createdAt, relative to the calendar month of the run: an instant
\* of an earlier month, the month's first instant, one inside the month, the
\* beginning (00:00:00.000) of the month's last day, and noon of that day
BeforeMonth == 0
MonthStart == 1
MidMonth == 2
LastDayStart == 3
LastDayNoon == 4

\* a complaint id that holds no document: life is "unused" or "deleted"
BlankComplaint ==
    [life |-> "unused", user |-> "none", loc |-> 0, recent |-> FALSE,
     category |-> "other", priority |-> "medium", status |-> "pending",
     pointsAwarded |-> 0, reviewedBy |-> "none", rejectionReason |-> "none",
     cleanupProof |-> FALSE, upvotes |-> 0, upvotedBy |-> <<>>, v |-> 0,
     createdAt |-> MidMonth]

\* Complaint.create of routes/complaints.js with the schema's defaults
NewComplaint(reporter, loc, category) ==
    [BlankComplaint EXCEPT !.life = "stored", !.user = reporter, !.loc = loc,
                           !.recent = TRUE, !.category = category]

\* the pre-save hook of the User schema: the stored password is the bcrypt
\* hash of the one supplied
hash(password) == <<"bcrypt", password>>

\* the User schema's defaults
NewUser(role) ==
    [role |-> role, rewardPoints |-> 0, totalPointsEarned |-> 0,
     totalComplaints |-> 0, approvedComplaints |-> 0, rejectedComplaints |-> 0,
     pendingComplaints |-> 0, badges |-> <<>>, city |-> "none",
     name |-> "Citizen", password |-> hash("p0")]

BlankRedeem ==
    [life |-> "unused", user |-> "none", pointsRedeemed |-> 0,
     rewardValue |-> [whole |-> 0, tenths |-> 0], status |-> "pending",
     reviewedBy |-> "none", delivered |-> FALSE]

VARIABLES users, complaints, redeems, req, issued

vars == <<users, complaints, redeems, req, issued>>

(***************************************************************************)
(* A request in flight: the handler (op), the await it is suspended at     *)
(* (pc), its inputs and the handler's local variables.                     *)
(***************************************************************************)
Idle ==
    [op |-> "idle", pc |-> "idle", actor |-> "none", cid |-> 0, rid |-> 0,
     uid |-> "none", badge |-> "none", city |-> "none", limit |-> 0,
     board |-> <<>>,
     rank |-> [found |-> FALSE, rank |-> 0, totalUsers |-> 0, percentile |-> 0],
     cdoc |-> BlankComplaint, udoc |-> NewUser("none"), ndoc |-> NewUser("none"),
     rdoc |-> BlankRedeem, points |-> 0, newBadges |-> <<>>, voted |-> FALSE,
     result |-> "none"]

CanStart(s) ==
    /\ req[s].op = "idle"
    /\ \A t \in Slots : t < s => req[t].op # "idle"
    /\ issued < MaxRequests

Begin(s, r) ==
    /\ req' = [req EXCEPT ![s] = r]
    /\ issued' = issued + 1

Step(s, r) ==
    /\ req' = [req EXCEPT ![s] = r]
    /\ issued' = issued

Finish(q, result) == [q EXCEPT !.pc = "respond", !.result = result]

\* variant: any authenticated user passes
IsAuthenticated(a) == users[a].role \in {"admin", "citizen"}

\* the admin middleware of middleware/auth.js
IsAdmin(a) == users[a].role = "admin"


(***************************************************************************)
(* doc.save() of a loaded document: the paths whose value differs from the *)
(* loaded one are $set on the stored document; the other paths keep what   *)
(* the store holds now.                                                    *)
(***************************************************************************)
SaveDoc(stored, loaded, new) ==
    [f \in DOMAIN stored |-> IF new[f] # loaded[f] THEN new[f] ELSE stored[f]]

(***************************************************************************)
(* User.checkAndAwardBadges: the badges pushed for the loaded counter.     *)
(***************************************************************************)
checkAndAwardBadges(doc) ==
    (IF doc.approvedComplaints = 1 THEN <<"First Step">> ELSE <<>>)
    \o (IF doc.approvedComplaints = 10 THEN <<"Clean Hero">> ELSE <<>>)
    \o (IF doc.approvedComplaints = 50 THEN <<"City Champion">> ELSE <<>>)
    \o (IF doc.approvedComplaints = 100 THEN <<"Eco Warrior">> ELSE <<>>)

(***************************************************************************)
(* PUT /api/admin/complaints/:id/approve                                   *)
(***************************************************************************)
\* the fields the handler assigns to the loaded complaint (lines 22-25)
ApprovedComplaint(doc, points, reviewer) ==
    [doc EXCEPT !.status = "approved", !.pointsAwarded = points,
                !.reviewedBy = reviewer]

\* the fields the handler assigns to the loaded user (lines 30-33)
\* variant: the lifetime total is not credited
CreditedUserSpendableOnly(doc, points) ==
    [doc EXCEPT !.rewardPoints = @ + points,
                !.approvedComplaints = @ + 1,
                !.pendingComplaints = @ - 1]

CreditedUser(doc, points) ==
    [doc EXCEPT !.rewardPoints = @ + points,
                !.totalPointsEarned = @ + points,
                !.approvedComplaints = @ + 1,
                !.pendingComplaints = @ - 1]

ApproveFind(s, a, c) ==
    /\ CanStart(s)
    /\ LET q == [Idle EXCEPT !.op = "approveComplaint", !.actor = a, !.cid = c]
       IN  IF ~IsAdmin(a) THEN Begin(s, Finish(q, "forbidden"))
           ELSE IF complaints[c].life # "stored" THEN Begin(s, Finish(q, "notfound"))
           ELSE Begin(s, [q EXCEPT !.pc = "saveComplaint",
                                   !.cdoc = complaints[c],
                                   !.points = calculatePoints(complaints[c])])
    /\ UNCHANGED <<users, complaints, redeems>>

ApproveSaveComplaint(s) ==
    /\ req[s].op = "approveComplaint" /\ req[s].pc = "saveComplaint"
    /\ LET q == req[s]
       IN  IF complaints[q.cid].life # "stored"
           THEN /\ Step(s, Finish(q, "error"))
                /\ UNCHANGED complaints
           ELSE /\ complaints' =
                      [complaints EXCEPT ![q.cid] =
                          SaveDoc(@, q.cdoc, ApprovedComplaint(q.cdoc, q.points, q.actor))]
                /\ Step(s, [q EXCEPT !.pc = "findUser"])
    /\ UNCHANGED <<users, redeems>>

ApproveFindUser(s) ==
    /\ req[s].op = "approveComplaint" /\ req[s].pc = "findUser"
    /\ Step(s, [req[s] EXCEPT !.pc = "saveUser", !.udoc = users[req[s].cdoc.user]])
    /\ UNCHANGED <<users, complaints, redeems>>

ApproveSaveUser(s) ==
    /\ req[s].op = "approveComplaint" /\ req[s].pc = "saveUser"
    /\ LET q == req[s]
       IN  /\ users' = [users EXCEPT ![q.cdoc.user] =
                           SaveDoc(@, q.udoc, CreditedUser(q.udoc, q.points))]
           /\ Step(s, [q EXCEPT !.pc = "badgeFind", !.uid = q.cdoc.user])
    /\ UNCHANGED <<complaints, redeems>>

\* checkAutoBadges(userId) of utils/gamification.js, called by the approval
\* with the reporter's id or directly: findById, checkAndAwardBadges
BadgeFind(s) ==
    /\ req[s].op \in {"approveComplaint", "checkAutoBadges"}
    /\ req[s].pc = "badgeFind"
    /\ LET q == req[s]
           fresh == checkAndAwardBadges(users[q.uid])
       IN  IF fresh = <<>> THEN Step(s, Finish(q, "ok"))
           ELSE Step(s, [q EXCEPT !.pc = "badgeSave", !.newBadges = fresh])
    /\ UNCHANGED <<users, complaints, redeems>>

\* checkAutoBadges: user.save() after badges.push(...newBadges)
BadgeSave(s) ==
    /\ req[s].op \in {"approveComplaint", "checkAutoBadges"}
    /\ req[s].pc = "badgeSave"
    /\ LET q == req[s]
       IN  /\ users' = [users EXCEPT ![q.uid].badges = @ \o q.newBadges]
           /\ Step(s, Finish(q, "ok"))
    /\ UNCHANGED <<complaints, redeems>>

\* a call of checkAutoBadges(userId) from outside the approval handler
CheckAutoBadgesCall(s, u) ==
    /\ CanStart(s)
    /\ Begin(s, [Idle EXCEPT !.op = "checkAutoBadges", !.pc = "badgeFind", !.uid = u])
    /\ UNCHANGED <<users, complaints, redeems>>

(***************************************************************************)
(* awardBadge(userId, badgeName) of utils/gamification.js                  *)
(***************************************************************************)
\* variant: only the milestone badges are defined
badgeDefinitionsMilestonesOnly ==
    {"First Step", "Clean Hero", "City Champion", "Eco Warrior"}

badgeDefinitions ==
    {"First Step", "Clean Hero", "City Champion", "Eco Warrior",
     "Top Contributor", "Consistency King"}

\* user.badges.some(badge => badge.name === badgeName)
hasBadge(doc, badgeName) ==
    \E i \in 1 .. Len(doc.badges) : doc.badges[i] = badgeName

\* findById, the hasBadge test, the lookup in badgeDefinitions
AwardBadgeFind(s, u, badgeName) ==
    /\ CanStart(s)
    /\ LET q == [Idle EXCEPT !.op = "awardBadge", !.uid = u, !.badge = badgeName,
                             !.udoc = users[u]]
       IN  IF hasBadge(users[u], badgeName) THEN Begin(s, Finish(q, "owned"))
           ELSE IF badgeName \notin badgeDefinitions
           THEN Begin(s, Finish(q, "invalidName"))
           ELSE Begin(s, [q EXCEPT !.pc = "awardSave"])
    /\ UNCHANGED <<users, complaints, redeems>>

\* user.save() after user.badges.push(...)
AwardBadgeSave(s) ==
    /\ req[s].op = "awardBadge" /\ req[s].pc = "awardSave"
    /\ users' = [users EXCEPT ![req[s].uid].badges = Append(@, req[s].badge)]
    /\ Step(s, Finish(req[s], "awarded"))
    /\ UNCHANGED <<complaints, redeems>>

(***************************************************************************)
(* res.json(...): the response is sent and the handler ends.               *)
(***************************************************************************)
Respond(s) ==
    /\ req[s].pc = "respond"
    /\ req' = [req EXCEPT ![s] = Idle]
    /\ UNCHANGED <<users, complaints, redeems, issued>>

(***************************************************************************)
(* PUT /api/admin/complaints/:id/reject                                    *)
(***************************************************************************)
RejectedComplaint(doc, reason, reviewer) ==
    [doc EXCEPT !.status = "rejected", !.rejectionReason = reason,
                !.reviewedBy = reviewer]

\* $inc of 'stats.rejectedComplaints' and 'stats.pendingComplaints'
RejectedUser(doc) ==
    [doc EXCEPT !.rejectedComplaints = @ + 1, !.pendingComplaints = @ - 1]

RejectFind(s, a, c) ==
    /\ CanStart(s)
    /\ LET q == [Idle EXCEPT !.op = "rejectComplaint", !.actor = a, !.cid = c]
       IN  IF ~IsAdmin(a) THEN Begin(s, Finish(q, "forbidden"))
           ELSE IF complaints[c].life # "stored" THEN Begin(s, Finish(q, "notfound"))
           ELSE Begin(s, [q EXCEPT !.pc = "saveComplaint", !.cdoc = complaints[c]])
    /\ UNCHANGED <<users, complaints, redeems>>

RejectSaveComplaint(s) ==
    /\ req[s].op = "rejectComplaint" /\ req[s].pc = "saveComplaint"
    /\ LET q == req[s]
       IN  IF complaints[q.cid].life # "stored"
           THEN /\ Step(s, Finish(q, "error"))
                /\ UNCHANGED complaints
           ELSE /\ complaints' =
                      [complaints EXCEPT ![q.cid] =
                          SaveDoc(@, q.cdoc, RejectedComplaint(q.cdoc, "spam", q.actor))]
                /\ Step(s, [q EXCEPT !.pc = "updateUser"])
    /\ UNCHANGED <<users, redeems>>

RejectUpdateUser(s) ==
    /\ req[s].op = "rejectComplaint" /\ req[s].pc = "updateUser"
    /\ users' = [users EXCEPT ![req[s].cdoc.user] = RejectedUser(@)]
    /\ Step(s, Finish(req[s], "ok"))
    /\ UNCHANGED <<complaints, redeems>>

(***************************************************************************)
(* PUT /api/admin/complaints/:id/cleanup-proof                             *)
(***************************************************************************)
CleanedComplaint(doc) ==
    [doc EXCEPT !.cleanupProof = TRUE, !.status = "cleaned"]

\* findById, the req.file test, the upload; a null complaint throws at the
\* assignment of cleanupProof, after the upload
CleanupFind(s, a, c, hasFile) ==
    /\ CanStart(s)
    /\ LET q == [Idle EXCEPT !.op = "cleanupProof", !.actor = a, !.cid = c]
       IN  IF ~IsAdmin(a) THEN Begin(s, Finish(q, "forbidden"))
           ELSE IF ~hasFile THEN Begin(s, Finish(q, "badrequest"))
           ELSE IF complaints[c].life # "stored" THEN Begin(s, Finish(q, "error"))
           ELSE Begin(s, [q EXCEPT !.pc = "saveComplaint", !.cdoc = complaints[c]])
    /\ UNCHANGED <<users, complaints, redeems>>

CleanupSave(s) ==
    /\ req[s].op = "cleanupProof" /\ req[s].pc = "saveComplaint"
    /\ LET q == req[s]
       IN  IF complaints[q.cid].life # "stored"
           THEN /\ Step(s, Finish(q, "error"))
                /\ UNCHANGED complaints
           ELSE /\ complaints' =
                      [complaints EXCEPT ![q.cid] =
                          SaveDoc(@, q.cdoc, CleanedComplaint(q.cdoc))]
                /\ Step(s, Finish(q, "ok"))
    /\ UNCHANGED <<users, redeems>>

(***************************************************************************)
(* POST /api/complaints                                                    *)
(***************************************************************************)
DuplicateRadius == 50

Distance(a, b) == IF a >= b THEN a - b ELSE b - a

\* variant: the reporter is not part of the query
isDuplicateComplaintAnyReporter(coordinates, userId) ==
    \E c \in ComplaintIds :
        /\ complaints[c].life = "stored"
        /\ complaints[c].recent
        /\ Distance(complaints[c].loc, coordinates) <= DuplicateRadius

\* Complaint.isDuplicateComplaint: a complaint of the user created in the
\* last 24 hours within 50 metres of the coordinates
isDuplicateComplaint(coordinates, userId) ==
    \E c \in ComplaintIds :
        /\ complaints[c].life = "stored"
        /\ complaints[c].user = userId
        /\ complaints[c].recent
        /\ Distance(complaints[c].loc, coordinates) <= DuplicateRadius

UnusedComplaintIds == {c \in ActiveIds : complaints[c].life = "unused"}

PendingCreates == {t \in Slots : req[t].op = "createComplaint" /\ req[t].pc = "create"}

\* $inc of 'stats.totalComplaints' and 'stats.pendingComplaints'
ReportedUser(doc) ==
    [doc EXCEPT !.totalComplaints = @ + 1, !.pendingComplaints = @ + 1]

CreateCheck(s, a, loc, category) ==
    /\ CanStart(s)
    /\ Cardinality(UnusedComplaintIds) > Cardinality(PendingCreates)
    /\ LET q == [Idle EXCEPT !.op = "createComplaint", !.actor = a]
       IN  IF isDuplicateComplaint(loc, a) THEN Begin(s, Finish(q, "duplicate"))
           ELSE Begin(s, [q EXCEPT !.pc = "create",
                                   !.cdoc = NewComplaint(a, loc, category)])
    /\ UNCHANGED <<users, complaints, redeems>>

CreateInsert(s) ==
    /\ req[s].op = "createComplaint" /\ req[s].pc = "create"
    /\ LET c == CHOOSE x \in UnusedComplaintIds : \A y \in UnusedComplaintIds : x <= y
       IN  /\ complaints' = [complaints EXCEPT ![c] = req[s].cdoc]
           /\ Step(s, [req[s] EXCEPT !.pc = "updateUser", !.cid = c])
    /\ UNCHANGED <<users, redeems>>

CreateUpdateUser(s) ==
    /\ req[s].op = "createComplaint" /\ req[s].pc = "updateUser"
    /\ users' = [users EXCEPT ![req[s].actor] = ReportedUser(@)]
    /\ Step(s, Finish(req[s], "ok"))
    /\ UNCHANGED <<complaints, redeems>>

(***************************************************************************)
(* PUT /api/complaints/:id/upvote                                          *)
(***************************************************************************)
Includes(seq, x) == \E i \in 1 .. Len(seq) : seq[i] = x

Without(seq, x) == SelectSeq(seq, LAMBDA y : y # x)

\* variant: a removal leaves the counter as it was
ToggledComplaintKeepsCount(doc, voter) ==
    IF Includes(doc.upvotedBy, voter)
    THEN [doc EXCEPT !.upvotedBy = Without(@, voter)]
    ELSE [doc EXCEPT !.upvotedBy = Append(@, voter), !.upvotes = @ + 1]

\* the handler's assignments to the loaded complaint: the voter's id is
\* filtered out and upvotes decremented if it is included, pushed and upvotes
\* incremented if not
ToggledComplaint(doc, voter) ==
    IF Includes(doc.upvotedBy, voter)
    THEN [doc EXCEPT !.upvotedBy = Without(@, voter), !.upvotes = @ - 1]
    ELSE [doc EXCEPT !.upvotedBy = Append(@, voter), !.upvotes = @ + 1]

UpvoteFind(s, a, c) ==
    /\ CanStart(s)
    /\ LET q == [Idle EXCEPT !.op = "upvote", !.actor = a, !.cid = c]
       IN  IF complaints[c].life # "stored" THEN Begin(s, Finish(q, "notfound"))
           ELSE Begin(s, [q EXCEPT !.pc = "saveComplaint", !.cdoc = complaints[c],
                                   !.voted = ~Includes(complaints[c].upvotedBy, a)])
    /\ UNCHANGED <<users, complaints, redeems>>

\* complaint.save(): a removal $sets the filtered array and is guarded by the
\* document version; an addition is a $push, which only increments it
UpvoteSave(s) ==
    /\ req[s].op = "upvote" /\ req[s].pc = "saveComplaint"
    /\ LET q == req[s]
           stored == complaints[q.cid]
           toggled == ToggledComplaint(q.cdoc, q.actor)
       IN  IF stored.life # "stored"
           THEN /\ Step(s, Finish(q, "error"))
                /\ UNCHANGED complaints
           ELSE IF q.voted
           THEN /\ complaints' =
                      [complaints EXCEPT ![q.cid] =
                          [stored EXCEPT !.upvotedBy = Append(@, q.actor),
                                         !.upvotes = toggled.upvotes,
                                         !.v = @ + 1]]
                /\ Step(s, Finish(q, "ok"))
           ELSE IF stored.v # q.cdoc.v
           THEN /\ Step(s, Finish(q, "error"))
                /\ UNCHANGED complaints
           ELSE /\ complaints' =
                      [complaints EXCEPT ![q.cid] =
                          [stored EXCEPT !.upvotedBy = toggled.upvotedBy,
                                         !.upvotes = toggled.upvotes,
                                         !.v = @ + 1]]
                /\ Step(s, Finish(q, "ok"))
    /\ UNCHANGED <<users, redeems>>

(***************************************************************************)
(* DELETE /api/complaints/:id                                              *)
(***************************************************************************)
\* variant: only the total is decremented
UnreportedUserTotalOnly(doc) ==
    [doc EXCEPT !.totalComplaints = @ - 1]

\* $inc of 'stats.totalComplaints' and 'stats.pendingComplaints'
UnreportedUser(doc) ==
    [doc EXCEPT !.totalComplaints = @ - 1, !.pendingComplaints = @ - 1]

DeleteFind(s, a, c) ==
    /\ CanStart(s)
    /\ LET q == [Idle EXCEPT !.op = "deleteComplaint", !.actor = a, !.cid = c]
       IN  IF complaints[c].life # "stored" THEN Begin(s, Finish(q, "notfound"))
           ELSE IF complaints[c].user # a THEN Begin(s, Finish(q, "forbidden"))
           ELSE IF complaints[c].status # "pending" THEN Begin(s, Finish(q, "invalid"))
           ELSE Begin(s, [q EXCEPT !.pc = "deleteOne", !.cdoc = complaints[c]])
    /\ UNCHANGED <<users, complaints, redeems>>

DeleteOne(s) ==
    /\ req[s].op = "deleteComplaint" /\ req[s].pc = "deleteOne"
    /\ complaints' = [complaints EXCEPT ![req[s].cid] =
                         [BlankComplaint EXCEPT !.life = "deleted"]]
    /\ Step(s, [req[s] EXCEPT !.pc = "updateUser"])
    /\ UNCHANGED <<users, redeems>>

DeleteUpdateUser(s) ==
    /\ req[s].op = "deleteComplaint" /\ req[s].pc = "updateUser"
    /\ users' = [users EXCEPT ![req[s].actor] = UnreportedUser(@)]
    /\ Step(s, Finish(req[s], "ok"))
    /\ UNCHANGED <<complaints, redeems>>

(***************************************************************************)
(* POST /api/rewards/redeem                                                *)
(***************************************************************************)
getConversionRate == 10

getMinimumPoints == 100

\* variant: the points multiplied by the rate
calculateRewardValueByProduct(points) ==
    [whole |-> points * getConversionRate, tenths |-> 0]

\* points / rate, a decimal with one fractional digit since rate is 10
calculateRewardValue(points) ==
    [whole |-> points \div getConversionRate,
     tenths |-> ((points % getConversionRate) * 10) \div getConversionRate]

\* Redeem.create of the handler, with the pre-save hook's rewardValue
NewRedeem(requester, points) ==
    [BlankRedeem EXCEPT !.life = "stored", !.user = requester,
                        !.pointsRedeemed = points,
                        !.rewardValue = calculateRewardValue(points)]

UnusedRedeemIds == {r \in RedeemIds : redeems[r].life = "unused"}

PendingRedeemCreates ==
    {t \in Slots : req[t].op = "requestRedemption" /\ req[t].pc = "create"}

RedeemCheck(s, a, pointsToRedeem) ==
    /\ CanStart(s)
    /\ Cardinality(UnusedRedeemIds) > Cardinality(PendingRedeemCreates)
    /\ LET q == [Idle EXCEPT !.op = "requestRedemption", !.actor = a,
                             !.points = pointsToRedeem]
       IN  IF pointsToRedeem < getMinimumPoints
           THEN Begin(s, Finish(q, "belowMinimum"))
           ELSE IF users[a].rewardPoints < pointsToRedeem
           THEN Begin(s, Finish([q EXCEPT !.udoc = users[a]], "insufficient"))
           ELSE Begin(s, [q EXCEPT !.pc = "create", !.udoc = users[a],
                                   !.rdoc = NewRedeem(a, pointsToRedeem)])
    /\ UNCHANGED <<users, complaints, redeems>>

\* Redeem.create: the handler passes no rewardValue, a required path of the
\* schema that only the pre('save') hook assigns.  The order in which the
\* library runs the schema validation and the schema's pre('save') hooks
\* decides the outcome: validation first refuses the document
\* (ValidationError, caught, 500), the hook first stores it.
RedeemCreate(s) ==
    /\ req[s].op = "requestRedemption" /\ req[s].pc = "create"
    /\ \E validatedFirst \in BOOLEAN :
          IF validatedFirst
          THEN /\ Step(s, Finish(req[s], "error"))
               /\ UNCHANGED redeems
          ELSE LET r == CHOOSE x \in UnusedRedeemIds :
                            \A y \in UnusedRedeemIds : x <= y
               IN  /\ redeems' = [redeems EXCEPT ![r] = req[s].rdoc]
                   /\ Step(s, Finish([req[s] EXCEPT !.rid = r], "ok"))
    /\ UNCHANGED <<users, complaints>>

(***************************************************************************)
(* PUT /api/rewards/redeem/:id/approve                                     *)
(***************************************************************************)
\* the fields the handler assigns to the loaded redemption (lines 78-86)
FulfilledRedeem(doc, reviewer) ==
    [doc EXCEPT !.status = "fulfilled", !.reviewedBy = reviewer,
                !.delivered = TRUE]

\* variant: the lifetime total is debited too
DebitedUserBothBalances(doc, points) ==
    [doc EXCEPT !.rewardPoints = @ - points, !.totalPointsEarned = @ - points]

\* $inc of rewardPoints by -pointsRedeemed
DebitedUser(doc, points) ==
    [doc EXCEPT !.rewardPoints = @ - points]

\* findById; a null redemption throws at redeem.user
RedeemApproveFind(s, a, r) ==
    /\ CanStart(s)
    /\ LET q == [Idle EXCEPT !.op = "approveRedemption", !.actor = a, !.rid = r]
       IN  IF ~IsAdmin(a) THEN Begin(s, Finish(q, "forbidden"))
           ELSE IF redeems[r].life # "stored" THEN Begin(s, Finish(q, "error"))
           ELSE Begin(s, [q EXCEPT !.pc = "debit", !.rdoc = redeems[r]])
    /\ UNCHANGED <<users, complaints, redeems>>

RedeemApproveDebit(s) ==
    /\ req[s].op = "approveRedemption" /\ req[s].pc = "debit"
    /\ users' = [users EXCEPT ![req[s].rdoc.user] =
                    DebitedUser(@, req[s].rdoc.pointsRedeemed)]
    /\ Step(s, [req[s] EXCEPT !.pc = "saveRedeem"])
    /\ UNCHANGED <<complaints, redeems>>

RedeemApproveSave(s) ==
    /\ req[s].op = "approveRedemption" /\ req[s].pc = "saveRedeem"
    /\ LET q == req[s]
       IN  /\ redeems' = [redeems EXCEPT ![q.rid] =
                             SaveDoc(@, q.rdoc, FulfilledRedeem(q.rdoc, q.actor))]
           /\ Step(s, Finish(q, "ok"))
    /\ UNCHANGED <<users, complaints>>

(***************************************************************************)
(* PUT /api/rewards/redeem/:id/reject: the rewards router defines no such  *)
(* route (nor any other that sets a redemption's status to rejected), so   *)
(* the request falls through to the 404 handler of server.js.              *)
(***************************************************************************)
RedeemRejectUnrouted(s, a, r) ==
    /\ CanStart(s)
    /\ Begin(s, Finish([Idle EXCEPT !.op = "rejectRedemption", !.actor = a, !.rid = r],
                       "notfound"))
    /\ UNCHANGED <<users, complaints, redeems>>

(***************************************************************************)
(* The store when the run begins: citizen u1 has five complaints approved  *)
(* long ago at 20 points each and one pending complaint that ten other     *)
(* users upvoted, one short of the upvote bonus; citizen u2 is newly       *)
(* registered; a1 is the admin of create-admin.js.                         *)
(***************************************************************************)
ArchivedComplaint ==
    [NewComplaint("u1", 100, "illegal_dumping") EXCEPT
        !.recent = FALSE, !.createdAt = BeforeMonth, !.status = "approved",
        !.pointsAwarded = calculatePoints(NewComplaint("u1", 100, "illegal_dumping")),
        !.reviewedBy = "a1"]

\* a pending complaint that the first n background voters upvoted (n pushes)
Upvoted(doc, n) ==
    [doc EXCEPT !.upvotes = n, !.upvotedBy = SubSeq(BackgroundVoters, 1, n),
                !.v = n]

SeedComplaint ==
    Upvoted(NewComplaint("u1", 0, "garbage_pile"), UpvoteBonusThreshold)

SeedUser ==
    [NewUser("citizen") EXCEPT
        !.rewardPoints = Cardinality(ArchivedIds) * ArchivedComplaint.pointsAwarded,
        !.totalPointsEarned = Cardinality(ArchivedIds) * ArchivedComplaint.pointsAwarded,
        !.totalComplaints = Cardinality(ArchivedIds) + 1,
        !.approvedComplaints = Cardinality(ArchivedIds),
        !.pendingComplaints = 1,
        !.badges = <<"First Step">>]

Init ==
    /\ users = [u \in UserIds |->
                   IF u = "u1" THEN SeedUser
                   ELSE IF u \in Admins THEN NewUser("admin")
                   ELSE NewUser("citizen")]
    /\ complaints = [c \in ComplaintIds |->
                        IF c \in ArchivedIds THEN ArchivedComplaint
                        ELSE IF c = 1 THEN SeedComplaint
                        ELSE BlankComplaint]
    /\ redeems = [r \in RedeemIds |-> BlankRedeem]
    /\ req = [s \in Slots |-> Idle]
    /\ issued = 0

(***************************************************************************)
(* Inputs of the requests.                                                 *)
(***************************************************************************)
CreateCategories == {"illegal_dumping", "other"}
RedeemAmounts == {50, 100}

\* the steps of the requests served in the slots S
Handlers(S) ==
    \/ \E s \in S, a \in UserIds, c \in ActiveIds : ApproveFind(s, a, c)
    \/ \E s \in S : ApproveSaveComplaint(s)
    \/ \E s \in S : ApproveFindUser(s)
    \/ \E s \in S : ApproveSaveUser(s)
    \/ \E s \in S : BadgeFind(s)
    \/ \E s \in S : BadgeSave(s)
    \/ \E s \in S, a \in UserIds, c \in ActiveIds : RejectFind(s, a, c)
    \/ \E s \in S : RejectSaveComplaint(s)
    \/ \E s \in S : RejectUpdateUser(s)
    \/ \E s \in S, a \in UserIds, c \in ActiveIds, f \in BOOLEAN :
           CleanupFind(s, a, c, f)
    \/ \E s \in S : CleanupSave(s)
    \/ \E s \in S, a \in Citizens, l \in Locations, k \in CreateCategories :
           CreateCheck(s, a, l, k)
    \/ \E s \in S : CreateInsert(s)
    \/ \E s \in S : CreateUpdateUser(s)
    \/ \E s \in S, a \in Citizens, c \in ActiveIds : UpvoteFind(s, a, c)
    \/ \E s \in S : UpvoteSave(s)
    \/ \E s \in S, a \in Citizens, c \in ActiveIds : DeleteFind(s, a, c)
    \/ \E s \in S : DeleteOne(s)
    \/ \E s \in S : DeleteUpdateUser(s)
    \/ \E s \in S, a \in Citizens, p \in RedeemAmounts : RedeemCheck(s, a, p)
    \/ \E s \in S : RedeemCreate(s)
    \/ \E s \in S, a \in UserIds, r \in RedeemIds : RedeemApproveFind(s, a, r)
    \/ \E s \in S : RedeemApproveDebit(s)
    \/ \E s \in S : RedeemApproveSave(s)
    \/ \E s \in S : Respond(s)

Next == Handlers(Slots)

Spec == Init /\ [][Next]_vars

\* the requests are served one after the other: a request starts in the first
\* free slot, so none starts while another is in flight
SeqNext == Handlers({1})

SpecSeq == Init /\ [][SeqNext]_vars

(***************************************************************************)
(* Approvals alone, served one after the other, of a pending complaint of  *)
(* u2 whose category, priority and upvotes are any the schema allows.      *)
(***************************************************************************)
PointsInit ==
    \E k \in Categories, p \in Priorities, n \in 0 .. MaxUpvotes :
        /\ users = [u \in UserIds |->
                       IF u = "u1"
                       THEN [SeedUser EXCEPT !.totalComplaints = @ - 1,
                                             !.pendingComplaints = @ - 1]
                       ELSE IF u \in Admins THEN NewUser("admin")
                       ELSE ReportedUser(NewUser("citizen"))]
        /\ complaints = [c \in ComplaintIds |->
                            IF c \in ArchivedIds THEN ArchivedComplaint
                            ELSE IF c = 1
                            THEN Upvoted([NewComplaint("u2", 0, k) EXCEPT !.priority = p], n)
                            ELSE BlankComplaint]
        /\ redeems = [r \in RedeemIds |-> BlankRedeem]
        /\ req = [s \in Slots |-> Idle]
        /\ issued = 0

ApproveHandlers(S) ==
    \/ \E s \in S, a \in UserIds, c \in ActiveIds : ApproveFind(s, a, c)
    \/ \E s \in S : ApproveSaveComplaint(s)
    \/ \E s \in S : ApproveFindUser(s)
    \/ \E s \in S : ApproveSaveUser(s)
    \/ \E s \in S : BadgeFind(s)
    \/ \E s \in S : BadgeSave(s)
    \/ \E s \in S : Respond(s)

PointsNext == ApproveHandlers({1})

SpecPoints == PointsInit /\ [][PointsNext]_vars

(***************************************************************************)
(* Concurrent approvals of distinct pending complaints of one reporter:    *)
(* u2 has reported a complaint at each end of the street, and each         *)
(* approval addresses a pending complaint that no other approval in flight *)
(* addresses.                                                              *)
(***************************************************************************)
DistinctInit ==
    /\ users = [u \in UserIds |->
                   IF u = "u1"
                   THEN [SeedUser EXCEPT !.totalComplaints = @ - 1,
                                         !.pendingComplaints = @ - 1]
                   ELSE IF u \in Admins THEN NewUser("admin")
                   ELSE ReportedUser(ReportedUser(NewUser("citizen")))]
    /\ complaints = [c \in ComplaintIds |->
                        IF c \in ArchivedIds THEN ArchivedComplaint
                        ELSE IF c = 1 THEN NewComplaint("u2", 0, "illegal_dumping")
                        ELSE IF c = MaxComplaints THEN NewComplaint("u2", 100, "other")
                        ELSE BlankComplaint]
    /\ redeems = [r \in RedeemIds |-> BlankRedeem]
    /\ req = [s \in Slots |-> Idle]
    /\ issued = 0

DistinctNext ==
    \/ \E s \in Slots, a \in UserIds, c \in ActiveIds :
           /\ complaints[c].status = "pending"
           /\ \A t \in Slots : req[t].op = "approveComplaint" => req[t].cid # c
           /\ ApproveFind(s, a, c)
    \/ \E s \in Slots : ApproveSaveComplaint(s)
    \/ \E s \in Slots : ApproveFindUser(s)
    \/ \E s \in Slots : ApproveSaveUser(s)
    \/ \E s \in Slots : BadgeFind(s)
    \/ \E s \in Slots : BadgeSave(s)
    \/ \E s \in Slots : Respond(s)

SpecDistinct == DistinctInit /\ [][DistinctNext]_vars

(***************************************************************************)
(* The badge functions of utils/gamification.js, called one after the      *)
(* other and between approvals: u2 has one pending complaint and is one    *)
(* approval short of a milestone (the complaints approved before are not   *)
(* among the documents the requests address) and holds the badges of the   *)
(* milestones passed.                                                      *)
(***************************************************************************)
Milestones == <<1, 10, 50, 100>>

MilestoneBadges == <<"First Step", "Clean Hero", "City Champion", "Eco Warrior">>

MilestoneEves == {Milestones[i] - 1 : i \in 1 .. Len(Milestones)}

\* the reporter after n approvals of ArchivedComplaint's points each, with one
\* more complaint pending
EveUser(n) ==
    [ReportedUser(NewUser("citizen")) EXCEPT
        !.rewardPoints = n * ArchivedComplaint.pointsAwarded,
        !.totalPointsEarned = n * ArchivedComplaint.pointsAwarded,
        !.totalComplaints = n + 1,
        !.approvedComplaints = n,
        !.badges = SubSeq(MilestoneBadges, 1,
                          Cardinality({i \in 1 .. Len(Milestones) : Milestones[i] <= n}))]

\* badge names a caller passes to awardBadge; the last is in no catalog
AwardNames == {"First Step", "Clean Hero", "Top Contributor", "Litter Legend"}

BadgesInit ==
    \E n \in MilestoneEves :
        /\ users = [u \in UserIds |->
                       IF u = "u1"
                       THEN [SeedUser EXCEPT !.totalComplaints = @ - 1,
                                             !.pendingComplaints = @ - 1]
                       ELSE IF u \in Admins THEN NewUser("admin")
                       ELSE EveUser(n)]
        /\ complaints = [c \in ComplaintIds |->
                            IF c \in ArchivedIds THEN ArchivedComplaint
                            ELSE IF c = 1 THEN NewComplaint("u2", 0, "illegal_dumping")
                            ELSE BlankComplaint]
        /\ redeems = [r \in RedeemIds |-> BlankRedeem]
        /\ req = [s \in Slots |-> Idle]
        /\ issued = 0

BadgeCalls(S) ==
    \/ \E s \in S, u \in Citizens : CheckAutoBadgesCall(s, u)
    \/ \E s \in S, u \in Citizens, b \in AwardNames : AwardBadgeFind(s, u, b)
    \/ \E s \in S : AwardBadgeSave(s)

BadgesNext ==
    \/ ApproveHandlers({1})
    \/ BadgeCalls({1})

SpecBadges == BadgesInit /\ [][BadgesNext]_vars

(***************************************************************************)
(* The requests of the rewards router alone, overlapping as the slots      *)
(* allow, from the initial store, where u1 holds the minimum redeemable    *)
(* balance.                                                                *)
(***************************************************************************)
RedeemHandlers(S) ==
    \/ \E s \in S, a \in Citizens, p \in RedeemAmounts : RedeemCheck(s, a, p)
    \/ \E s \in S : RedeemCreate(s)
    \/ \E s \in S, a \in UserIds, r \in RedeemIds : RedeemApproveFind(s, a, r)
    \/ \E s \in S : RedeemApproveDebit(s)
    \/ \E s \in S : RedeemApproveSave(s)
    \/ \E s \in S, a \in UserIds, r \in RedeemIds : RedeemRejectUnrouted(s, a, r)
    \/ \E s \in S : Respond(s)

RedeemNext == RedeemHandlers(Slots)

SpecRedeem == Init /\ [][RedeemNext]_vars

(***************************************************************************)
(* Reports and their withdrawal alone, overlapping as the slots allow: the *)
(* store holds only u1's complaints of long ago, all at the far end of the *)
(* street, and the reports come from points at, just within and just       *)
(* beyond the duplicate radius of each other.                              *)
(***************************************************************************)
CreateLocations == {0, 50, 51, 100}

CreateInit ==
    /\ users = [u \in UserIds |->
                   IF u = "u1"
                   THEN [SeedUser EXCEPT !.totalComplaints = @ - 1,
                                         !.pendingComplaints = @ - 1]
                   ELSE IF u \in Admins THEN NewUser("admin")
                   ELSE NewUser("citizen")]
    /\ complaints = [c \in ComplaintIds |->
                        IF c \in ArchivedIds THEN ArchivedComplaint
                        ELSE BlankComplaint]
    /\ redeems = [r \in RedeemIds |-> BlankRedeem]
    /\ req = [s \in Slots |-> Idle]
    /\ issued = 0

CreateHandlers(S) ==
    \/ \E s \in S, a \in Citizens, l \in CreateLocations, k \in CreateCategories :
           CreateCheck(s, a, l, k)
    \/ \E s \in S : CreateInsert(s)
    \/ \E s \in S : CreateUpdateUser(s)
    \/ \E s \in S, a \in Citizens, c \in ActiveIds : DeleteFind(s, a, c)
    \/ \E s \in S : DeleteOne(s)
    \/ \E s \in S : DeleteUpdateUser(s)
    \/ \E s \in S : Respond(s)

CreateNext == CreateHandlers(Slots)

SpecCreate == CreateInit /\ [][CreateNext]_vars

\* the same requests served one after the other
CreateSeqNext == CreateHandlers({1})

SpecCreateSeq == CreateInit /\ [][CreateSeqNext]_vars

(***************************************************************************)
(* utils/gamification.js: the leaderboards and a user's rank.  None of     *)
(* the four functions is awaited more than once, so each call is one step  *)
(* that leaves its answer in the request.                                  *)
(***************************************************************************)
\* citizens of the stores in which the population varies
MaxPopulation == 4

\* every order of the ids of S in which key never increases: the orders a
\* descending sort may return, equal keys in any order
RECURSIVE SortedDescending(_, _)
SortedDescending(S, key) ==
    IF S = {} THEN {<<>>}
    ELSE UNION {{<<m>> \o rest : rest \in SortedDescending(S \ {m}, key)} :
                   m \in {x \in S : \A y \in S : key[x] >= key[y]}}

\* Query.limit of MongoDB: limit(0) sets no limit
Limited(order, limit) ==
    IF limit = 0 THEN order
    ELSE SubSeq(order, 1, IF limit < Len(order) THEN limit ELSE Len(order))

\* User.find({ role: 'citizen' })
CitizenIds == {u \in DOMAIN users : users[u].role = "citizen"}

\* the sort key 'stats.approvedComplaints'
ApprovedKey == [u \in DOMAIN users |-> users[u].approvedComplaints]

\* the lean copies of the users in order, each given rank = index + 1
UserEntries(order) ==
    [i \in 1 .. Len(order) |->
        [id |-> order[i], count |-> users[order[i]].approvedComplaints,
         points |-> users[order[i]].totalPointsEarned, rank |-> i]]

\* the answers getAllTimeLeaderboard(limit) may give
getAllTimeLeaderboard(limit) ==
    {UserEntries(Limited(order, limit)) :
        order \in SortedDescending(CitizenIds, ApprovedKey)}

\* the answers getAreaLeaderboard(city, limit) may give
getAreaLeaderboard(city, limit) ==
    {UserEntries(Limited(order, limit)) :
        order \in SortedDescending({u \in CitizenIds : users[u].city = city},
                                   ApprovedKey)}

percentileFloor(n, i) == (100 * (n - i)) \div n

\* Math.round(((n - i) / n) * 100): the nearest integer, a half rounded up.
\* The doubles of the source give this value for every population below 40.
percentile(n, i) == (200 * (n - i) + n) \div (2 * n)

\* the answers getUserRank(userId) may give; found = FALSE stands for
\* { rank: null, totalUsers } without a percentile
getUserRank(userId) ==
    {IF \E i \in 1 .. Len(order) : order[i] = userId
     THEN LET userIndex == (CHOOSE i \in 1 .. Len(order) : order[i] = userId) - 1
          IN  [found |-> TRUE, rank |-> userIndex + 1, totalUsers |-> Len(order),
               percentile |-> percentile(Len(order), userIndex)]
     ELSE [found |-> FALSE, rank |-> 0, totalUsers |-> Len(order), percentile |-> 0] :
        order \in SortedDescending(CitizenIds, ApprovedKey)}

\* new Date(year, month, 1)
startOfMonth == MonthStart

\* new Date(year, month + 1, 0): day 0 of the next month is the last day of
\* this month, at 00:00:00.000
endOfMonth == LastDayStart

\* $match of the monthly aggregation
MonthlyMatch ==
    {c \in ComplaintIds :
        /\ complaints[c].life = "stored"
        /\ complaints[c].status = "approved"
        /\ complaints[c].createdAt >= startOfMonth
        /\ complaints[c].createdAt <= endOfMonth}

\* totalPoints: { $sum: '$pointsAwarded' }
RECURSIVE SumPointsAwarded(_)
SumPointsAwarded(ids) ==
    IF ids = {} THEN 0
    ELSE LET c == CHOOSE x \in ids : TRUE
         IN  complaints[c].pointsAwarded + SumPointsAwarded(ids \ {c})

\* $group by '$user' with complaintsCount: { $sum: 1 }
MonthlyCount ==
    [u \in {complaints[c].user : c \in MonthlyMatch} |->
        Cardinality({c \in MonthlyMatch : complaints[c].user = u})]

\* $lookup and $unwind keep the groups whose user exists; rank = index + 1
MonthlyEntries(order) ==
    LET joined == SelectSeq(order, LAMBDA u : u \in DOMAIN users)
    IN  [i \in 1 .. Len(joined) |->
            [id |-> joined[i], count |-> MonthlyCount[joined[i]],
             points |-> SumPointsAwarded({c \in MonthlyMatch :
                                             complaints[c].user = joined[i]}),
             rank |-> i]]

\* the answers getMonthlyLeaderboard(limit) may give, for a positive limit
getMonthlyLeaderboard(limit) ==
    {MonthlyEntries(SubSeq(order, 1, IF limit < Len(order) THEN limit ELSE Len(order))) :
        order \in SortedDescending(DOMAIN MonthlyCount, MonthlyCount)}

MonthlyLeaderboardCallAwarding(s, limit) ==
    /\ CanStart(s)
    /\ limit > 0
    /\ \E board \in getMonthlyLeaderboard(limit) :
           /\ Begin(s, Finish([Idle EXCEPT !.op = "monthlyLeaderboard",
                                           !.limit = limit, !.board = board], "ok"))
           /\ users' = [u \in DOMAIN users |->
                           IF board # <<>> /\ board[1].id = u
                           THEN [users[u] EXCEPT !.badges = Append(@, "Top Contributor")]
                           ELSE users[u]]
    /\ UNCHANGED <<complaints, redeems>>

\* GET /leaderboard?type=monthly: $limit refuses a limit that is not positive
\* and the route answers 500
MonthlyLeaderboardCall(s, limit) ==
    /\ CanStart(s)
    /\ IF limit > 0
       THEN \E board \in getMonthlyLeaderboard(limit) :
                Begin(s, Finish([Idle EXCEPT !.op = "monthlyLeaderboard",
                                             !.limit = limit, !.board = board], "ok"))
       ELSE Begin(s, Finish([Idle EXCEPT !.op = "monthlyLeaderboard",
                                         !.limit = limit], "error"))
    /\ UNCHANGED <<users, complaints, redeems>>

\* GET /leaderboard with any other type
AllTimeLeaderboardCall(s, limit) ==
    /\ CanStart(s)
    /\ \E board \in getAllTimeLeaderboard(limit) :
           Begin(s, Finish([Idle EXCEPT !.op = "allTimeLeaderboard",
                                        !.limit = limit, !.board = board], "ok"))
    /\ UNCHANGED <<users, complaints, redeems>>

AreaLeaderboardCall(s, city, limit) ==
    /\ CanStart(s)
    /\ \E board \in getAreaLeaderboard(city, limit) :
           Begin(s, Finish([Idle EXCEPT !.op = "areaLeaderboard", !.city = city,
                                        !.limit = limit, !.board = board], "ok"))
    /\ UNCHANGED <<users, complaints, redeems>>

UserRankCall(s, userId) ==
    /\ CanStart(s)
    /\ \E answer \in getUserRank(userId) :
           Begin(s, Finish([Idle EXCEPT !.op = "userRank", !.uid = userId,
                                        !.rank = answer], "ok"))
    /\ UNCHANGED <<users, complaints, redeems>>

\* limits a caller passes: parseInt(limit) of the query, 10 by default
Limits == {0, 1, 2, 10}

\* users a population is drawn from, and the cities of their addresses
CitizenPool == <<"u1", "u2", "u3", "u4", "u5", "u6">>
Cities == <<"Pune", "Delhi", "none">>
ApprovedCounts == {0, 1, 2}

\* cities and user ids a caller passes; "Agra" is nobody's city and "nobody"
\* is no user's id
AskedCities == {"Pune", "Delhi", "Agra"}
AskedUsers == {CitizenPool[i] : i \in 1 .. Len(CitizenPool)} \cup Admins \cup {"nobody"}

\* a citizen of the pool after n approvals of ArchivedComplaint's points each
PoolUser(i, n) ==
    [NewUser("citizen") EXCEPT
        !.rewardPoints = n * ArchivedComplaint.pointsAwarded,
        !.totalPointsEarned = n * ArchivedComplaint.pointsAwarded,
        !.totalComplaints = n,
        !.approvedComplaints = n,
        !.badges = IF n >= 1 THEN <<"First Step">> ELSE <<>>,
        !.city = Cities[((i - 1) % Len(Cities)) + 1]]

\* stores whose population varies: 0 .. MaxPopulation citizens with any
\* counts, and an admin who reported more than any of them; the complaints
\* behind the counts are not among the documents
PopulationInit ==
    \E n \in 0 .. MaxPopulation :
        \E counts \in [1 .. n -> ApprovedCounts] :
            /\ users = [u \in {CitizenPool[i] : i \in 1 .. n} \cup Admins |->
                           IF u \in Admins
                           THEN [PoolUser(1, 3) EXCEPT !.role = "admin"]
                           ELSE LET i == CHOOSE j \in 1 .. n : CitizenPool[j] = u
                                IN  PoolUser(i, counts[i])]
            /\ complaints = [c \in ComplaintIds |-> BlankComplaint]
            /\ redeems = [r \in RedeemIds |-> BlankRedeem]
            /\ req = [s \in Slots |-> Idle]
            /\ issued = 0

\* status and creation instant of the complaints of the month's stores
Stamps ==
    {<<"pending", MidMonth>>, <<"approved", BeforeMonth>>, <<"approved", MonthStart>>,
     <<"approved", LastDayStart>>, <<"approved", LastDayNoon>>, <<"cleaned", MidMonth>>}

StampedComplaint(c, reporter, stamp) ==
    LET doc == NewComplaint(reporter, 100 * c,
                            IF c % 2 = 1 THEN "illegal_dumping" ELSE "other")
    IN  [doc EXCEPT !.recent = FALSE, !.status = stamp[1], !.createdAt = stamp[2],
                    !.pointsAwarded = IF stamp[1] = "pending" THEN 0
                                      ELSE calculatePoints(doc),
                    !.reviewedBy = IF stamp[1] = "pending" THEN "none" ELSE "a1",
                    !.cleanupProof = (stamp[1] = "cleaned")]

\* the reporter's ledger and counters after the complaints docs
ReporterOf(u, docs) ==
    LET base == IF u = "u1"
                THEN [SeedUser EXCEPT !.totalComplaints = @ - 1,
                                      !.pendingComplaints = @ - 1]
                ELSE NewUser("citizen")
        mine == {c \in DOMAIN docs : docs[c].user = u}
        RECURSIVE Earned(_)
        Earned(ids) ==
            IF ids = {} THEN 0
            ELSE LET c == CHOOSE x \in ids : TRUE
                 IN  docs[c].pointsAwarded + Earned(ids \ {c})
    IN  [base EXCEPT
            !.rewardPoints = @ + Earned(mine),
            !.totalPointsEarned = @ + Earned(mine),
            !.totalComplaints = @ + Cardinality(mine),
            !.approvedComplaints =
                @ + Cardinality({c \in mine : docs[c].status # "pending"}),
            !.pendingComplaints =
                @ + Cardinality({c \in mine : docs[c].status = "pending"}),
            !.badges = IF base.approvedComplaints = 0
                          /\ \E c \in mine : docs[c].status # "pending"
                       THEN <<"First Step">> ELSE @]

\* stores whose complaints vary: every active id holds a reviewed or pending
\* complaint of either citizen, created inside or before the month
MonthlyInit ==
    \E reporters \in [ActiveIds -> Citizens], stamps \in [ActiveIds -> Stamps] :
        LET docs == [c \in ActiveIds |-> StampedComplaint(c, reporters[c], stamps[c])]
        IN  /\ users = [u \in UserIds |->
                           IF u \in Admins THEN NewUser("admin")
                           ELSE ReporterOf(u, docs)]
            /\ complaints = [c \in ComplaintIds |->
                                IF c \in ArchivedIds THEN ArchivedComplaint
                                ELSE docs[c]]
            /\ redeems = [r \in RedeemIds |-> BlankRedeem]
            /\ req = [s \in Slots |-> Idle]
            /\ issued = 0

BoardsInit == PopulationInit \/ MonthlyInit

BoardHandlers(S) ==
    \/ \E s \in S, limit \in Limits : MonthlyLeaderboardCall(s, limit)
    \/ \E s \in S, limit \in Limits : AllTimeLeaderboardCall(s, limit)
    \/ \E s \in S, city \in AskedCities, limit \in Limits :
           AreaLeaderboardCall(s, city, limit)
    \/ \E s \in S, userId \in AskedUsers : UserRankCall(s, userId)
    \/ \E s \in S : Respond(s)

BoardsNext == BoardHandlers({1})

SpecBoards == BoardsInit /\ [][BoardsNext]_vars

(***************************************************************************)
(* POST /api/complaints with the priority a caller puts in the body.       *)
(***************************************************************************)
\* priorities a request body carries; "none" is a body without the field
BodyPriorities == Priorities \cup {"none"}

\* the handler takes latitude, longitude, description, category and address
\* from the body and nothing else: a priority in the body is not read
CreateComplaintRequest(s, a, loc, category, priority) ==
    CreateCheck(s, a, loc, category)

PriorityHandlers(S) ==
    \/ \E s \in S, a \in Citizens, l \in CreateLocations, k \in CreateCategories,
          p \in BodyPriorities : CreateComplaintRequest(s, a, l, k, p)
    \/ \E s \in S : CreateInsert(s)
    \/ \E s \in S : CreateUpdateUser(s)
    \/ ApproveHandlers(S)

PriorityNext == PriorityHandlers({1})

SpecPriority == CreateInit /\ [][PriorityNext]_vars

(***************************************************************************)
(* routes/auth.js: register, login, profile update and change of password. *)
(* An account is identified by its email; an email without an account      *)
(* holds a document of role "none".                                        *)
(***************************************************************************)
\* emails that have no account at the start
SpareIds == {"n1"}
AccountIds == UserIds \cup SpareIds

\* what a request body may carry: "" and "none" stand for an absent field
BodyNames == {"", "Asha"}
BodyPasswords == {"p0", "p1"}
BodyCities == {"none", "Pune"}
BodyRoles == {"none", "admin"}
Bodies == [name : BodyNames, password : BodyPasswords, city : BodyCities,
           role : BodyRoles]

Registered(e) == users[e].role # "none"

\* userSchema.methods.comparePassword
comparePassword(doc, entered) == doc.password = hash(entered)

RegisteredUserWithBodyRole(body) ==
    [NewUser(IF body.role = "none" THEN "citizen" ELSE body.role) EXCEPT
        !.name = body.name, !.password = hash(body.password), !.city = body.city]

\* User.create({ name, email, password, phone, address, role: 'citizen' })
RegisteredUser(body) ==
    [NewUser("citizen") EXCEPT
        !.name = body.name, !.password = hash(body.password), !.city = body.city]

\* POST /register: validation, then User.findOne({ email })
RegisterFind(s, e, body) ==
    /\ CanStart(s)
    /\ LET q == [Idle EXCEPT !.op = "register", !.uid = e]
       IN  IF body.name = "" THEN Begin(s, Finish(q, "invalid"))
           ELSE IF Registered(e) THEN Begin(s, Finish(q, "exists"))
           ELSE Begin(s, [q EXCEPT !.pc = "create", !.ndoc = RegisteredUser(body)])
    /\ UNCHANGED <<users, complaints, redeems>>

\* User.create: the unique index on email refuses a second account
RegisterCreate(s) ==
    /\ req[s].op = "register" /\ req[s].pc = "create"
    /\ IF Registered(req[s].uid)
       THEN /\ Step(s, Finish(req[s], "error"))
            /\ UNCHANGED users
       ELSE /\ users' = [users EXCEPT ![req[s].uid] = req[s].ndoc]
            /\ Step(s, Finish(req[s], "ok"))
    /\ UNCHANGED <<complaints, redeems>>

\* POST /login: findOne and comparePassword; nothing is written
Login(s, e, password) ==
    /\ CanStart(s)
    /\ LET q == [Idle EXCEPT !.op = "login", !.uid = e]
       IN  IF ~Registered(e) \/ ~comparePassword(users[e], password)
           THEN Begin(s, Finish(q, "unauthorized"))
           ELSE Begin(s, Finish([q EXCEPT !.udoc = users[e]], "ok"))
    /\ UNCHANGED <<users, complaints, redeems>>

\* the document of PUT /profile after its three conditional assignments
ProfiledUser(doc, body) ==
    [doc EXCEPT !.name = IF body.name # "" THEN body.name ELSE @,
                !.city = IF body.city # "none" THEN body.city ELSE @]

\* PUT /profile of a logged-in user: User.findById
ProfileFind(s, a, body) ==
    /\ CanStart(s)
    /\ Registered(a)
    /\ Begin(s, [Idle EXCEPT !.op = "updateProfile", !.pc = "saveProfile",
                             !.actor = a, !.udoc = users[a],
                             !.ndoc = ProfiledUser(users[a], body)])
    /\ UNCHANGED <<users, complaints, redeems>>

\* user.save()
ProfileSave(s) ==
    /\ req[s].op = "updateProfile" /\ req[s].pc = "saveProfile"
    /\ users' = [users EXCEPT ![req[s].actor] = SaveDoc(@, req[s].udoc, req[s].ndoc)]
    /\ Step(s, Finish(req[s], "ok"))
    /\ UNCHANGED <<complaints, redeems>>

\* POST /change-password of a logged-in user: findById and comparePassword
ChangePasswordFind(s, a, currentPassword, newPassword) ==
    /\ CanStart(s)
    /\ Registered(a)
    /\ LET q == [Idle EXCEPT !.op = "changePassword", !.actor = a]
       IN  IF ~comparePassword(users[a], currentPassword)
           THEN Begin(s, Finish(q, "unauthorized"))
           ELSE Begin(s, [q EXCEPT !.pc = "savePassword", !.udoc = users[a],
                                   !.ndoc = [users[a] EXCEPT
                                                !.password = hash(newPassword)]])
    /\ UNCHANGED <<users, complaints, redeems>>

\* user.save(), the pre-save hook hashing the new password
ChangePasswordSave(s) ==
    /\ req[s].op = "changePassword" /\ req[s].pc = "savePassword"
    /\ users' = [users EXCEPT ![req[s].actor] = SaveDoc(@, req[s].udoc, req[s].ndoc)]
    /\ Step(s, Finish(req[s], "ok"))
    /\ UNCHANGED <<complaints, redeems>>

AuthHandlers(S) ==
    \/ \E s \in S, e \in AccountIds, body \in Bodies : RegisterFind(s, e, body)
    \/ \E s \in S : RegisterCreate(s)
    \/ \E s \in S, e \in AccountIds, p \in BodyPasswords : Login(s, e, p)
    \/ \E s \in S, a \in AccountIds, body \in Bodies : ProfileFind(s, a, body)
    \/ \E s \in S : ProfileSave(s)
    \/ \E s \in S, a \in AccountIds, p \in BodyPasswords, n \in BodyPasswords :
           ChangePasswordFind(s, a, p, n)
    \/ \E s \in S : ChangePasswordSave(s)

\* the seeded store with the spare emails unregistered
AuthInit ==
    /\ users = [u \in AccountIds |->
                   IF u = "u1" THEN SeedUser
                   ELSE IF u \in Admins THEN NewUser("admin")
                   ELSE IF u \in Citizens THEN NewUser("citizen")
                   ELSE NewUser("none")]
    /\ complaints = [c \in ComplaintIds |->
                        IF c \in ArchivedIds THEN ArchivedComplaint
                        ELSE IF c = 1 THEN SeedComplaint
                        ELSE BlankComplaint]
    /\ redeems = [r \in RedeemIds |-> BlankRedeem]
    /\ req = [s \in Slots |-> Idle]
    /\ issued = 0

\* the account requests with the complaint, reward and admin requests whose
\* outcome depends on a role; an account registered during the run sends
\* admin requests too
AuthNext ==
    \/ AuthHandlers({1})
    \/ \E a \in SpareIds, c \in ActiveIds : Registered(a) /\ ApproveFind(1, a, c)
    \/ ApproveHandlers({1})
    \/ RedeemHandlers({1})
    \/ \E a \in Citizens : CreateCheck(1, a, 0, "other")
    \/ CreateInsert(1)
    \/ CreateUpdateUser(1)

SpecAuth == AuthInit /\ [][AuthNext]_vars

(***************************************************************************)
(* Properties.                                                             *)
(***************************************************************************)
RECURSIVE SumAwarded(_)
SumAwarded(ids) ==
    IF ids = {} THEN 0
    ELSE LET c == CHOOSE x \in ids : TRUE
         IN  complaints[c].pointsAwarded + SumAwarded(ids \ {c})

\* the stored complaints of a reporter that were approved
ApprovedOf(u) ==
    {c \in ComplaintIds : /\ complaints[c].life = "stored"
                          /\ complaints[c].user = u
                          /\ complaints[c].status \in {"approved", "cleaned"}}

Quiescent == \A s \in Slots : req[s].op = "idle"

C3_PointsAwardedWrittenOnce ==
    [][\A c \in ComplaintIds :
          (complaints[c].life = "stored" /\ complaints'[c].life = "stored")
          => /\ (complaints[c].status = "pending" => complaints[c].pointsAwarded = 0)
             /\ (complaints'[c].pointsAwarded # complaints[c].pointsAwarded
                 => /\ complaints[c].status = "pending"
                    /\ complaints'[c].status = "approved")]_vars

\* C4: an approveComplaint that loaded a complaint whose status is not pending
\* writes neither a complaint nor a user and answers InvalidState.
C4_ApproveRequiresPending ==
    [][\A s \in Slots :
          (/\ req[s].op = "approveComplaint"
           /\ req[s].cdoc.life = "stored"
           /\ req[s].cdoc.status # "pending"
           /\ req'[s] # req[s])
          => /\ complaints' = complaints
             /\ users' = users
             /\ (req'[s].pc = "respond" => req'[s].result = "invalid")]_vars

\* C5: once the concurrent approvals of distinct pending complaints of u2 have
\* completed, u2's rewardPoints and totalPointsEarned have grown (from 0) by
\* the sum of the pointsAwarded of the approved complaints and
\* approvedComplaints by their number.
C5_NoCreditLost ==
    Quiescent =>
        /\ users["u2"].rewardPoints = SumAwarded(ApprovedOf("u2"))
        /\ users["u2"].totalPointsEarned = SumAwarded(ApprovedOf("u2"))
        /\ users["u2"].approvedComplaints = Cardinality(ApprovedOf("u2"))

\* C6: no step leaves a user's totalPointsEarned smaller than it was.
C6_TotalPointsNonDecreasing ==
    [][\A u \in UserIds :
          users'[u].totalPointsEarned >= users[u].totalPointsEarned]_vars

\* the tables and the formula of the specification
ClaimedCategoryBase ==
    [illegal_dumping |-> 20, blocked_drain |-> 15, overflowing_bin |-> 10,
     garbage_pile |-> 10, other |-> 5]

ClaimedPriorityBonus == [urgent |-> 10, high |-> 5, medium |-> 0, low |-> 0]

ClaimedPoints(doc) ==
    ClaimedCategoryBase[doc.category] + ClaimedPriorityBonus[doc.priority]
    + (IF doc.upvotes > 10 THEN 5 ELSE 0)

\* C7: the points computed at approval, and the pointsAwarded of an approved
\* complaint, are categoryBase + priorityBonus + upvoteBonus with the tables
\* of the specification and upvoteBonus 5 exactly when upvotes > 10.
C7_PointsFormula ==
    /\ \A s \in Slots :
          (req[s].op = "approveComplaint" /\ req[s].cdoc.life = "stored")
          => req[s].points = ClaimedPoints(req[s].cdoc)
    /\ \A c \in ActiveIds :
          (complaints[c].life = "stored" /\ complaints[c].status = "approved")
          => complaints[c].pointsAwarded = ClaimedPoints(complaints[c])

\* C7 witness: illegal_dumping, urgent, 12 upvotes was approved with 35 points.
C7_Witness ==
    \E c \in ActiveIds :
        /\ complaints[c].status = "approved"
        /\ complaints[c].category = "illegal_dumping"
        /\ complaints[c].priority = "urgent"
        /\ complaints[c].upvotes = 12
        /\ complaints[c].pointsAwarded = 35

\* the milestone badge of the specification for a value of approvedComplaints
ClaimedMilestone(n) ==
    IF n = 1 THEN <<"First Step">>
    ELSE IF n = 10 THEN <<"Clean Hero">>
    ELSE IF n = 50 THEN <<"City Champion">>
    ELSE IF n = 100 THEN <<"Eco Warrior">>
    ELSE <<>>

\* C8: when an approveComplaint of a pending complaint, served alone, answers,
\* the complaint is approved with pointsAwarded = points, the reporter's
\* rewardPoints and totalPointsEarned are each larger by points,
\* approvedComplaints by 1 and pendingComplaints smaller by 1, and the
\* milestone badge of the new approvedComplaints, if any, was appended.
C8_ApproveEffect ==
    \A s \in Slots :
        (/\ req[s].op = "approveComplaint"
         /\ req[s].pc = "respond"
         /\ req[s].result = "ok"
         /\ req[s].cdoc.status = "pending")
        => LET q == req[s]
               c == complaints[q.cid]
               before == q.udoc
               after == users[q.cdoc.user]
           IN  /\ c.status = "approved"
               /\ c.pointsAwarded = q.points
               /\ q.points = ClaimedPoints(q.cdoc)
               /\ after.rewardPoints = before.rewardPoints + q.points
               /\ after.totalPointsEarned = before.totalPointsEarned + q.points
               /\ after.approvedComplaints = before.approvedComplaints + 1
               /\ after.pendingComplaints = before.pendingComplaints - 1
               /\ after.totalComplaints = before.totalComplaints
               /\ after.rejectedComplaints = before.rejectedComplaints
               /\ after.badges = before.badges \o ClaimedMilestone(after.approvedComplaints)

\* C8 witness: the first approval of a complaint of u2 has answered and the
\* badge evaluation appended First Step.
C8_Witness ==
    \E s \in Slots :
        /\ req[s].op = "approveComplaint"
        /\ req[s].pc = "respond"
        /\ req[s].result = "ok"
        /\ req[s].cdoc.status = "pending"
        /\ req[s].cdoc.user = "u2"
        /\ req[s].points > 0
        /\ req[s].newBadges = <<"First Step">>
        /\ users["u2"].badges = <<"First Step">>

\* C9: a complaint transition is all-or-nothing; its first part, stated here:
\* no state shows an approved complaint whose credit and stat deltas are
\* missing from the reporter, that is every reporter's totalPointsEarned
\* covers the pointsAwarded of the reporter's approved complaints and
\* approvedComplaints covers their number.
C9_TransitionAtomic ==
    \A u \in UserIds :
        /\ users[u].totalPointsEarned >= SumAwarded(ApprovedOf(u))
        /\ users[u].approvedComplaints >= Cardinality(ApprovedOf(u))

\* C10: a complaint's status changes only along pending->approved,
\* pending->rejected and approved->cleaned.
C10_StatusTransitions ==
    [][\A c \in ComplaintIds :
          (/\ complaints[c].life = "stored"
           /\ complaints'[c].life = "stored"
           /\ complaints'[c].status # complaints[c].status)
          => <<complaints[c].status, complaints'[c].status>> \in
                 {<<"pending", "approved">>, <<"pending", "rejected">>,
                  <<"approved", "cleaned">>}]_vars

\* C11: a rejectComplaint that loaded a complaint whose status is not pending
\* writes neither a complaint nor a user and answers InvalidState.
C11_RejectRequiresPending ==
    [][\A s \in Slots :
          (/\ req[s].op = "rejectComplaint"
           /\ req[s].cdoc.life = "stored"
           /\ req[s].cdoc.status # "pending"
           /\ req'[s] # req[s])
          => /\ complaints' = complaints
             /\ users' = users
             /\ (req'[s].pc = "respond" => req'[s].result = "invalid")]_vars

\* C12: a cleanup-proof request that loaded a complaint whose status is not
\* approved writes no complaint and answers InvalidState, and a stored
\* complaint carries a cleanup sub-record only while its status is cleaned.
C12_CleanupRequiresApproved ==
    [][/\ \A s \in Slots :
             (/\ req[s].op = "cleanupProof"
              /\ req[s].cdoc.life = "stored"
              /\ req[s].cdoc.status # "approved"
              /\ req'[s] # req[s])
             => /\ complaints' = complaints
                /\ (req'[s].pc = "respond" => req'[s].result = "invalid")
       /\ \A c \in ComplaintIds :
             (complaints'[c].life = "stored" /\ complaints'[c].cleanupProof)
             => complaints'[c].status = "cleaned"]_vars

\* the stored complaints of a reporter that are pending
PendingOf(u) ==
    {c \in ComplaintIds : /\ complaints[c].life = "stored"
                          /\ complaints[c].user = u
                          /\ complaints[c].status = "pending"}

\* C13: whenever no request is in flight, each user's pendingComplaints is the
\* number of the user's stored complaints whose status is pending.
C13_PendingCountMatches ==
    Quiescent =>
        \A u \in UserIds : users[u].pendingComplaints = Cardinality(PendingOf(u))

\* the number of entries of a badge list that carry a name
BadgeCount(badges, name) ==
    Cardinality({i \in 1 .. Len(badges) : badges[i] = name})

\* C14: no user's badges list contains two entries with the same name.
C14_NoDuplicateBadges ==
    \A u \in UserIds :
        \A i, j \in 1 .. Len(users[u].badges) :
            i # j => users[u].badges[i] # users[u].badges[j]

\* C15: when a direct call of checkAutoBadges has answered while the user's
\* approvedComplaints equals a milestone, the user holds exactly one entry of
\* that milestone's badge, and a call adds no badge the user already holds.
C15_CheckAutoBadgesIdempotent ==
    [][\A s \in Slots :
          (/\ req[s].op = "checkAutoBadges"
           /\ req'[s].op = "checkAutoBadges"
           /\ req'[s].pc = "respond"
           /\ req[s].pc # "respond")
          => /\ \A i \in 1 .. Len(Milestones) :
                   users'[req[s].uid].approvedComplaints = Milestones[i]
                   => BadgeCount(users'[req[s].uid].badges, MilestoneBadges[i]) = 1
             /\ \A i \in 1 .. Len(MilestoneBadges) :
                   hasBadge(users[req[s].uid], MilestoneBadges[i])
                   => BadgeCount(users'[req[s].uid].badges, MilestoneBadges[i])
                      = BadgeCount(users[req[s].uid].badges, MilestoneBadges[i])]_vars

\* the six catalog names of the specification
ClaimedCatalog ==
    {"First Step", "Clean Hero", "City Champion", "Eco Warrior",
     "Top Contributor", "Consistency King"}

ClaimedRewardValue(points) ==
    [whole |-> points \div 10, tenths |-> points % 10]

\* C17: when a requestRedemption(user, points) has answered, then it failed
\* with BelowMinimum and created nothing if points < 100, failed with
\* InsufficientPoints and created nothing if points exceeded the balance it
\* read, and otherwise succeeded and created one pending redemption with
\* pointsRedeemed = points and rewardValue = points / 10.
C17_RequestRedemptionContract ==
    \A s \in Slots :
        (req[s].op = "requestRedemption" /\ req[s].pc = "respond")
        => LET q == req[s]
           IN  IF q.points < 100
               THEN q.result = "belowMinimum" /\ q.rid = 0
               ELSE IF q.points > q.udoc.rewardPoints
               THEN q.result = "insufficient" /\ q.rid = 0
               ELSE /\ q.result = "ok"
                    /\ q.rid \in RedeemIds
                    /\ redeems[q.rid].life = "stored"
                    /\ redeems[q.rid].user = q.actor
                    /\ redeems[q.rid].pointsRedeemed = q.points
                    /\ redeems[q.rid].rewardValue = ClaimedRewardValue(q.points)

C19_RejectRedemption ==
    [][\A s \in Slots :
          (/\ req[s].op = "idle"
           /\ req'[s].op = "rejectRedemption"
           /\ req'[s].pc = "respond"
           /\ IsAdmin(req'[s].actor)
           /\ redeems[req'[s].rid].life = "stored"
           /\ redeems[req'[s].rid].status = "pending")
          => LET r == req'[s].rid
                 u == redeems[r].user
             IN  /\ redeems'[r].status = "rejected"
                 /\ users'[u].rewardPoints = users[u].rewardPoints
                 /\ users'[u].totalPointsEarned = users[u].totalPointsEarned]_vars

\* the voters of a complaint as a set
Voters(doc) == {doc.upvotedBy[i] : i \in 1 .. Len(doc.upvotedBy)}

\* C20 as claimed: an upvote served alone reports voted=true when the voter
\* had not voted, and the same voter's next upvote of the complaint returns
\* upvotes and the voter set to their values before the first and reports
\* voted=false.
C20_SecondVoteReportsFalse ==
    [][\A s \in Slots :
          (/\ req[s].op = "upvote"
           /\ req[s].pc = "saveComplaint"
           /\ req'[s].pc = "respond"
           /\ req'[s].result = "ok")
          => LET before == complaints[req[s].cid]
                 after == complaints'[req[s].cid]
                 second == ToggledComplaint(after, req[s].actor)
             IN  /\ (~Includes(before.upvotedBy, req[s].actor) => req'[s].voted)
                 /\ second.upvotes = before.upvotes
                 /\ Voters(second) = Voters(before)
                 /\ Includes(after.upvotedBy, req[s].actor)]_vars

\* C20: an upvote served alone toggles the voter's vote and reports voted=true
\* exactly when the voter had not voted; the same voter's next upvote of the
\* complaint returns upvotes and the voter set to their values before the
\* first, and reports the opposite of what the first reported, so voted=false
\* when the voter had not voted before the pair.
C20_UpvoteToggle ==
    [][\A s \in Slots :
          (/\ req[s].op = "upvote"
           /\ req[s].pc = "saveComplaint"
           /\ req'[s].pc = "respond"
           /\ req'[s].result = "ok")
          => LET before == complaints[req[s].cid]
                 after == complaints'[req[s].cid]
                 first == ToggledComplaint(before, req[s].actor)
                 second == ToggledComplaint(after, req[s].actor)
             IN  /\ after.upvotes = first.upvotes
                 /\ after.upvotedBy = first.upvotedBy
                 /\ req'[s].voted = ~Includes(before.upvotedBy, req[s].actor)
                 /\ req'[s].voted = Includes(after.upvotedBy, req[s].actor)
                 /\ second.upvotes = before.upvotes
                 /\ Voters(second) = Voters(before)]_vars

\* C20 witness: u2's second upvote of complaint 1 in a row has answered
\* voted=false, and the complaint has the ten upvotes and the voters it had
\* before u2's first.
C20_Witness ==
    \E s \in Slots :
        /\ req[s].op = "upvote"
        /\ req[s].pc = "respond"
        /\ req[s].result = "ok"
        /\ req[s].actor = "u2"
        /\ req[s].cid = 1
        /\ Includes(req[s].cdoc.upvotedBy, "u2")
        /\ ~req[s].voted
        /\ complaints[1].upvotes = SeedComplaint.upvotes
        /\ complaints[1].upvotedBy = SeedComplaint.upvotedBy

\* C21: every stored complaint's upvotedBy holds each voter at most once and
\* its upvotes is the number of entries of upvotedBy, also in states reached by
\* overlapping upvote requests.
C21_UpvotesMatchVoters ==
    \A c \in ComplaintIds :
        complaints[c].life = "stored"
        => /\ \A i, j \in 1 .. Len(complaints[c].upvotedBy) :
                 i # j => complaints[c].upvotedBy[i] # complaints[c].upvotedBy[j]
           /\ complaints[c].upvotes = Len(complaints[c].upvotedBy)

\* C22: with requests served one after the other, a deleteComplaint by a
\* caller who is not the reporter answers Forbidden and one for a complaint
\* that is not pending answers InvalidState, both without any write; a
\* complaint leaves the store only by its reporter's deleteComplaint while it
\* is pending; and the successful delete has removed the record and lowered
\* the owner's totalComplaints and pendingComplaints by 1 each.
C22_DeleteContract ==
    [][/\ \A s \in Slots :
             (/\ req[s].op = "idle"
              /\ req'[s].op = "deleteComplaint"
              /\ complaints[req'[s].cid].life = "stored")
             => LET q == req'[s]
                    c == complaints[q.cid]
                IN  /\ complaints' = complaints
                    /\ users' = users
                    /\ c.user # q.actor
                       => q.pc = "respond" /\ q.result = "forbidden"
                    /\ (c.user = q.actor /\ c.status # "pending")
                       => q.pc = "respond" /\ q.result = "invalid"
                    /\ (c.user = q.actor /\ c.status = "pending")
                       => q.pc = "deleteOne"
       /\ \A c \in ComplaintIds :
             (complaints[c].life = "stored" /\ complaints'[c].life # "stored")
             => /\ complaints[c].status = "pending"
                /\ users' = users
                /\ \E s \in Slots : /\ req[s].op = "deleteComplaint"
                                    /\ req[s].cid = c
                                    /\ req[s].actor = complaints[c].user
       /\ \A s \in Slots :
             (/\ req[s].op = "deleteComplaint"
              /\ req[s].pc # "respond"
              /\ req'[s].pc = "respond"
              /\ req'[s].result = "ok")
             => /\ complaints'[req[s].cid].life = "deleted"
                /\ users' = [users EXCEPT
                                ![req[s].actor].totalComplaints = @ - 1,
                                ![req[s].actor].pendingComplaints = @ - 1]]_vars

\* C22 witness: u1's delete of the pending complaint 1 has answered; the
\* record is gone and u1's totalComplaints and pendingComplaints are one less
\* than initially.
C22_Witness ==
    \E s \in Slots :
        /\ req[s].op = "deleteComplaint"
        /\ req[s].pc = "respond"
        /\ req[s].result = "ok"
        /\ req[s].actor = "u1"
        /\ req[s].cid = 1
        /\ complaints[1].life = "deleted"
        /\ users["u1"].totalComplaints = SeedUser.totalComplaints - 1
        /\ users["u1"].pendingComplaints = SeedUser.pendingComplaints - 1

\* the duplicate condition of the specification: the store holds a complaint
\* by the reporter within 50 m of the point created within the last 24 hours
ClaimedDuplicate(reporter, point) ==
    \E c \in ComplaintIds :
        /\ complaints[c].life = "stored"
        /\ complaints[c].user = reporter
        /\ complaints[c].recent
        /\ complaints[c].loc - point <= 50
        /\ point - complaints[c].loc <= 50

\* C23: the check step of a createComplaint by reporter a at point l answers
\* DuplicateReport, storing nothing and changing no stats, exactly when the
\* store holds a complaint by a within 50 m of l created within the last 24
\* hours, and otherwise goes on to insert the complaint at l.
C23_DuplicateFilterExact ==
    [][\A s \in Slots, a \in Citizens, l \in CreateLocations, k \in CreateCategories :
          CreateCheck(s, a, l, k)
          => /\ (req'[s].result = "duplicate") = ClaimedDuplicate(a, l)
             /\ ClaimedDuplicate(a, l)
                => /\ req'[s].pc = "respond"
                   /\ complaints' = complaints
                   /\ users' = users
             /\ ~ClaimedDuplicate(a, l)
                => /\ req'[s].pc = "create"
                   /\ req'[s].cdoc.user = a
                   /\ req'[s].cdoc.loc = l]_vars

\* C23 witness: u2 reported at 50 and then u1 at 0; neither u2's complaint
\* within 50 m nor u1's own complaints of long ago blocked u1's report.
C23_Witness ==
    \E c, d \in ActiveIds :
        /\ c < d
        /\ complaints[c].life = "stored"
        /\ complaints[c].user = "u2"
        /\ complaints[c].loc = 50
        /\ complaints[d].life = "stored"
        /\ complaints[d].user = "u1"
        /\ complaints[d].loc = 0

\* C24: the store never holds two complaints by one reporter within 50 m of
\* each other that were both created within the last 24 hours.
C24_NoDuplicateStored ==
    \A c, d \in ComplaintIds :
        (/\ c # d
         /\ complaints[c].life = "stored"
         /\ complaints[d].life = "stored"
         /\ complaints[c].user = complaints[d].user
         /\ complaints[c].recent
         /\ complaints[d].recent)
        => \/ complaints[c].loc - complaints[d].loc > 50
           \/ complaints[d].loc - complaints[c].loc > 50

\* the requests that are neither approveComplaint nor approveRedemption
NonLedgerOps ==
    {"createComplaint", "rejectComplaint", "cleanupProof", "upvote",
     "deleteComplaint", "requestRedemption"}

\* C25: with requests served one after the other, a step that raises a user's
\* rewardPoints is the credit of an approveComplaint for that reporter and
\* raises totalPointsEarned by the same amount; totalPointsEarned changes in
\* no other step; a step that lowers rewardPoints is the debit of an
\* approveRedemption for that requester; and no step of createComplaint,
\* rejectComplaint, attachCleanupProof, upvote, deleteComplaint or
\* requestRedemption changes either balance of any user.
C25_LedgerFrame ==
    [][\A u \in UserIds :
          LET dSpend == users'[u].rewardPoints - users[u].rewardPoints
              dTotal == users'[u].totalPointsEarned - users[u].totalPointsEarned
          IN  /\ dSpend > 0
                 => /\ dTotal = dSpend
                    /\ \E s \in Slots : /\ req[s].op = "approveComplaint"
                                        /\ req[s].pc = "saveUser"
                                        /\ req'[s].pc = "badgeFind"
                                        /\ req[s].cdoc.user = u
              /\ dTotal # 0 => (dTotal > 0 /\ dTotal = dSpend)
              /\ dSpend < 0
                 => /\ dTotal = 0
                    /\ \E s \in Slots : /\ req[s].op = "approveRedemption"
                                        /\ req[s].pc = "debit"
                                        /\ req'[s].pc = "saveRedeem"
                                        /\ req[s].rdoc.user = u
              /\ (\E s \in Slots : /\ req'[s] # req[s]
                                   /\ \/ req[s].op \in NonLedgerOps
                                      \/ req'[s].op \in NonLedgerOps)
                 => (dSpend = 0 /\ dTotal = 0)]_vars

\* C25 witness: u1 was credited the 10 points of complaint 1 and debited a
\* redemption of 100 points: rewardPoints is 10 and totalPointsEarned 110.
C25_Witness ==
    /\ users["u1"].rewardPoints = SeedUser.rewardPoints + 10 - 100
    /\ users["u1"].totalPointsEarned = SeedUser.totalPointsEarned + 10
    /\ \E r \in RedeemIds : redeems[r].status = "fulfilled"

\* the requests behind the admin middleware
AdminOps ==
    {"approveComplaint", "rejectComplaint", "cleanupProof", "approveRedemption"}

\* C26: a step of an approveComplaint, rejectComplaint, attachCleanupProof or
\* approveRedemption whose actor's role is not admin answers not authorized
\* and changes no complaint, redemption or user, so only an admin's request
\* reaches a write.
C26_AdminOnly ==
    [][\A s \in Slots :
          (/\ req'[s] # req[s]
           /\ req'[s].op \in AdminOps
           /\ users[req'[s].actor].role # "admin")
          => /\ req'[s].pc = "respond"
             /\ req'[s].result = "forbidden"
             /\ complaints' = complaints
             /\ redeems' = redeems
             /\ users' = users]_vars

\* C26 witness: citizen u1's approval of the own pending complaint 1 has been
\* refused, and the complaint is still pending with no points awarded.
C26_Witness ==
    \E s \in Slots :
        /\ req[s].op = "approveComplaint"
        /\ req[s].actor = "u1"
        /\ req[s].cid = 1
        /\ req[s].pc = "respond"
        /\ req[s].result = "forbidden"
        /\ complaints[1].status = "pending"
        /\ users["u1"].rewardPoints = SeedUser.rewardPoints

\* round(x) of the rational x = 100 (n - i) / n: the integer p with
\* p - 1/2 <= x < p + 1/2
ClaimedPercentile(n, i) ==
    CHOOSE p \in 0 .. 100 :
        /\ 2 * n * p - n <= 200 * (n - i)
        /\ 200 * (n - i) < 2 * n * p + n

ClaimedMonthly ==
    {c \in ComplaintIds :
        /\ complaints[c].life = "stored"
        /\ complaints[c].status = "approved"
        /\ complaints[c].createdAt \in {MonthStart, MidMonth, LastDayStart, LastDayNoon}}

ClaimedMonthlyOf(u) == {c \in ClaimedMonthly : complaints[c].user = u}

\* C28: the monthly leaderboard counts, per reporter, every approved complaint
\* created anywhere between the first and the last instant of the current
\* month, any time on the month's last day included, and sums their
\* pointsAwarded; the entries are ordered by count descending, truncated to
\* the limit, and carry the ranks 1, 2, ..., k by position.
C28_MonthlyBoard ==
    \A s \in Slots :
        (req[s].op = "monthlyLeaderboard" /\ req[s].result = "ok") =>
            LET board == req[s].board
                reporters == {complaints[c].user : c \in ClaimedMonthly}
                listed == {board[i].id : i \in 1 .. Len(board)}
            IN  /\ Len(board) = IF req[s].limit < Cardinality(reporters)
                                THEN req[s].limit ELSE Cardinality(reporters)
                /\ Cardinality(listed) = Len(board)
                /\ listed \subseteq reporters
                /\ \A i \in 1 .. Len(board) :
                       /\ board[i].rank = i
                       /\ board[i].count = Cardinality(ClaimedMonthlyOf(board[i].id))
                       /\ board[i].points = SumAwarded(ClaimedMonthlyOf(board[i].id))
                       /\ \A j \in 1 .. Len(board) :
                              i < j => board[i].count >= board[j].count
                       /\ \A u \in reporters \ listed :
                              Cardinality(ClaimedMonthlyOf(u)) <= board[i].count

\* citizens an all-time (city = "none") or area leaderboard may list
ClaimedEligible(s) ==
    {u \in DOMAIN users :
        /\ users[u].role = "citizen"
        /\ req[s].op = "areaLeaderboard" => users[u].city = req[s].city}

\* what C29 says of the board answered in slot s
ClaimedUserBoard(s) ==
    LET board == req[s].board
        listed == {board[i].id : i \in 1 .. Len(board)}
    IN  /\ listed \subseteq ClaimedEligible(s)
        /\ Len(board) <= req[s].limit
        /\ Cardinality(listed) = Len(board)
        /\ \A i \in 1 .. Len(board) :
               /\ board[i].rank = i
               /\ board[i].count = users[board[i].id].approvedComplaints
               /\ \A j \in 1 .. Len(board) :
                      i < j => board[i].count >= board[j].count
               /\ \A u \in ClaimedEligible(s) \ listed :
                      users[u].approvedComplaints <= board[i].count

\* the boards answered to a positive limit are as C29 says
UserBoardsOfPositiveLimit ==
    \A s \in Slots :
        (req[s].op \in {"allTimeLeaderboard", "areaLeaderboard"} /\ req[s].limit > 0)
            => ClaimedUserBoard(s)

\* C29: the all-time leaderboard lists only citizens (the area leaderboard
\* only citizens of the requested city), has at most limit entries, never
\* ranks an entry with fewer approvedComplaints above one with more, carries
\* the distinct ranks 1..k by position, and excludes no citizen with more
\* approvedComplaints than an included one.
C29_UserBoards ==
    \A s \in Slots :
        req[s].op \in {"allTimeLeaderboard", "areaLeaderboard"} => ClaimedUserBoard(s)

RankingOps == {"monthlyLeaderboard", "allTimeLeaderboard", "areaLeaderboard", "userRank"}

\* C30: getMonthlyLeaderboard, getAllTimeLeaderboard, getAreaLeaderboard and
\* getUserRank are read-only: a call of any of them leaves every user,
\* complaint and redemption as it was.
C30_RankingReadOnly ==
    [][(\E s \in Slots : req[s].op = "idle" /\ req'[s].op \in RankingOps)
           => (users' = users /\ complaints' = complaints /\ redeems' = redeems)]_vars

\* a monthly leaderboard of two reporters has been answered
C30_Witness ==
    /\ req[1].op = "monthlyLeaderboard"
    /\ req[1].pc = "respond"
    /\ Len(req[1].board) = 2
    /\ req[1].board[1].id # req[1].board[2].id

\* C31: createComplaint stores the priority the caller supplies, medium when
\* none is supplied, so a complaint submitted as urgent or high is stored
\* with that priority and earns the +10 or +5 bonus when approved.
C31_PriorityStored ==
    [][\A s \in Slots, a \in Citizens, l \in CreateLocations, k \in CreateCategories,
          p \in BodyPriorities :
           (CreateComplaintRequest(s, a, l, k, p) /\ req'[s].pc = "create")
               => req'[s].cdoc.priority = IF p = "none" THEN "medium" ELSE p]_vars

\* redemption r was debited before the step of slot s: it is stored as
\* fulfilled, or another approval of it has debited and not yet saved
AlreadyDebited(r, s) ==
    \/ redeems[r].status = "fulfilled"
    \/ \E t \in Slots \ {s} :
           /\ req[t].op = "approveRedemption"
           /\ req[t].rid = r
           /\ req[t].pc = "saveRedeem"

FulfilledOf(u) ==
    {r \in RedeemIds : /\ redeems[r].life = "stored"
                       /\ redeems[r].user = u
                       /\ redeems[r].status = "fulfilled"}

RECURSIVE SumRedeemed(_)
SumRedeemed(ids) ==
    IF ids = {} THEN 0
    ELSE LET r == CHOOSE x \in ids : TRUE
         IN  redeems[r].pointsRedeemed + SumRedeemed(ids \ {r})

\* no debit is lost: the spendable balance never exceeds what conservation allows
NoDebitLost ==
    Quiescent =>
        \A u \in UserIds :
            users[u].rewardPoints
                <= users[u].totalPointsEarned - SumRedeemed(FulfilledOf(u))

C34_EarnedMatchesComplaints ==
    Quiescent =>
        \A u \in UserIds : users[u].totalPointsEarned = SumAwarded(ApprovedOf(u))

\* the stored complaints of a reporter that were rejected
RejectedOf(u) ==
    {c \in ComplaintIds : /\ complaints[c].life = "stored"
                          /\ complaints[c].user = u
                          /\ complaints[c].status = "rejected"}

\* C35: whenever no request is in flight, every user's approvedComplaints
\* equals the number of that user's stored complaints whose status is
\* approved or cleaned, and rejectedComplaints the number whose status is
\* rejected.
C35_CountersMatchComplaints ==
    Quiescent =>
        \A u \in UserIds :
            /\ users[u].approvedComplaints = Cardinality(ApprovedOf(u))
            /\ users[u].rejectedComplaints = Cardinality(RejectedOf(u))

\* C36: a deleteComplaint by the owner and an approveComplaint or
\* rejectComplaint of the same pending complaint never both succeed, so a
\* complaint whose points were credited is never removed and the owner's
\* pendingComplaints is decremented once for it.
C36_DeleteExcludesReview ==
    \A s, t \in Slots :
        ~ (/\ req[s].op = "deleteComplaint"
           /\ req[s].result = "ok"
           /\ req[t].op \in {"approveComplaint", "rejectComplaint"}
           /\ req[t].cid = req[s].cid
           /\ req[t].result = "ok")

\* C37: no milestone badge is missed: whenever no approval is in flight, a
\* user with approvedComplaints >= 1 holds First Step and one with
\* approvedComplaints >= 10 holds Clean Hero, also after concurrent approvals
\* of that user's complaints.
C37_NoBadgeMissed ==
    Quiescent =>
        \A u \in UserIds :
            /\ users[u].approvedComplaints >= 1 => hasBadge(users[u], "First Step")
            /\ users[u].approvedComplaints >= 10 => hasBadge(users[u], "Clean Hero")

\* C38: no request changes the role of an existing user, and every user
\* created by register has role citizen whatever the request carries, so a
\* citizen never gains the admin role through the API.
C38_RoleFixed ==
    [][\A u \in DOMAIN users :
           /\ users[u].role # "none" => users'[u].role = users[u].role
           /\ (users[u].role = "none" /\ users'[u].role # "none")
                  => users'[u].role = "citizen"]_vars

\* n1 has registered and is a citizen, u1 has updated its profile, and a
\* second register of n1 is refused
C38_Witness ==
    /\ users["n1"].role = "citizen"
    /\ users["n1"].city = "Pune"
    /\ users["u1"].name = "Asha"
    /\ users["u1"].role = "citizen"
    /\ req[1].op = "register"
    /\ req[1].uid = "n1"
    /\ req[1].result = "exists"

=============================================================================
